---- MODULE Spec2Model ----
(***************************************************************************)
(* A model of the two utilities of the repository:                         *)
(*                                                                         *)
(*   config/zed/diff-settings.py  (SettingsDiff: parse_jsonc, find_orphaned,*)
(*                                 main)                                   *)
(*   bin/regex-escape.py          (Escaper: the module-level loop)          *)
(*                                                                         *)
(* Python values are modelled as tagged records [t |-> tag, v |-> payload]: *)
(*   None   [t |-> "null", v |-> <<>>]                                     *)
(*   bool   [t |-> "bool", v |-> <<0>>] or <<1>> (bool is a subclass of    *)
(*          int in Python: True == 1, False == 0)                          *)
(*   int    [t |-> "int",  v |-> <<n>>]                                    *)
(*   str    [t |-> "str",  v |-> sequence of characters]                   *)
(*   list   [t |-> "list", v |-> sequence of values]                       *)
(*   dict   [t |-> "dict", v |-> sequence of <<key, value>> pairs in       *)
(*          insertion order, the keys (sequences of characters) distinct]  *)
(* A raised exception is the record [t |-> "raise", v |-> <<name>>].       *)
(* A character is its code point (ord(c), 0..1114111), and a Python str, a *)
(* stream and a line are sequences of characters, so that stripping,       *)
(* escaping and substring tests are computed character by character over   *)
(* all of Unicode.  Text(<<"a", "b">>) writes the str "ab".                *)
(***************************************************************************)
EXTENDS Integers, Sequences, FiniteSets, TLC

VARIABLES
    pc,              \* position of the running program
    fs,              \* SettingsDiff: the three files beside the script
    base,            \* SettingsDiff: main's / find_orphaned's `base`
    local_settings,  \* SettingsDiff: `local_settings`
    settings,        \* SettingsDiff: `settings`
    orphaned,        \* SettingsDiff: the value (or exception) of find_orphaned
    again,           \* find_orphaned applied to its own result
    stdin,           \* Escaper: the unread rest of standard input
    input,           \* Escaper: the whole of standard input, as given
    stdout,          \* standard output, a sequence of characters
    stderr,          \* standard error, a sequence of diagnostics
    status           \* the process's exit status (-1 while running)

vars == <<pc, fs, base, local_settings, settings, orphaned, again,
          stdin, input, stdout, stderr, status>>

(***************************************************************************)
(* Characters                                                              *)
(***************************************************************************)
\* The printable ASCII characters in code order, from the blank (32) to the
\* tilde (126); the place of the grave accent (96), which no string of the
\* module writes, holds the empty string.
Printable ==
    <<" ", "!", "\"", "#", "$", "%", "&", "'", "(", ")", "*", "+",
      ",", "-", ".", "/", "0", "1", "2", "3", "4", "5", "6", "7",
      "8", "9", ":", ";", "<", "=", ">", "?", "@", "A", "B", "C",
      "D", "E", "F", "G", "H", "I", "J", "K", "L", "M", "N", "O",
      "P", "Q", "R", "S", "T", "U", "V", "W", "X", "Y", "Z", "[",
      "\\", "]", "^", "_", "", "a", "b", "c", "d", "e", "f", "g",
      "h", "i", "j", "k", "l", "m", "n", "o", "p", "q", "r", "s",
      "t", "u", "v", "w", "x", "y", "z", "{", "|", "}", "~">>

\* ord(c) for a character written as a one-character string: a printable
\* ASCII character or one of the escapes \n \t \r \f.
Ord(c) ==
    CASE c = "\n" -> 10
      [] c = "\t" -> 9
      [] c = "\r" -> 13
      [] c = "\f" -> 12
      [] OTHER -> 31 + CHOOSE i \in 1..Len(Printable) : Printable[i] = c

\* The str of the characters written one by one.
Text(cs) == [i \in 1..Len(cs) |-> Ord(cs[i])]

Newline == Ord("\n")
Blank == Ord(" ")
Backslash == Ord("\\")
Slash == Ord("/")
Quote == Ord("\"")

(***************************************************************************)
(* Python values                                                           *)
(***************************************************************************)
None == [t |-> "null", v |-> <<>>]
PyTrue == [t |-> "bool", v |-> <<1>>]
PyFalse == [t |-> "bool", v |-> <<0>>]
PyInt(n) == [t |-> "int", v |-> <<n>>]
PyStr(cs) == [t |-> "str", v |-> cs]
PyList(xs) == [t |-> "list", v |-> xs]
PyDict(items) == [t |-> "dict", v |-> items]
PyRaise(name) == [t |-> "raise", v |-> <<name>>]

EmptyDict == PyDict(<<>>)
EmptyList == PyList(<<>>)

IsDict(x) == x.t = "dict"
IsList(x) == x.t = "list"
IsStr(x) == x.t = "str"
IsRaise(x) == x.t = "raise"
IsNumber(x) == x.t \in {"int", "bool"}

\* The keys of a dict, as a set.
KeySet(d) == {d.v[i][1] : i \in 1..Len(d.v)}

\* `key in d` for a dict d.
HasKey(d, key) == \E i \in 1..Len(d.v) : d.v[i][1] = key

\* d[key] for a dict d that has the key.
GetItem(d, key) == d.v[CHOOSE i \in 1..Len(d.v) : d.v[i][1] = key][2]

\* d[key] = value: replaces the value of a key the dict has (the key keeps its
\* place), appends the pair otherwise.
SetItem(d, key, value) ==
    IF HasKey(d, key)
    THEN PyDict([i \in 1..Len(d.v) |->
                 IF d.v[i][1] = key THEN <<key, value>> ELSE d.v[i]])
    ELSE PyDict(Append(d.v, <<key, value>>))

\* d.get(key, default)
DictGet(d, key, default) == IF HasKey(d, key) THEN GetItem(d, key) ELSE default

\* A variant that tests `is not None` in place of truth.
Truthy_NotNone(x) == x.t # "null"

\* bool(x), for the values `if nested:`, `if orphaned_elements:` and
\* `if orphaned:` test.
Truthy(x) ==
    CASE x.t \in {"dict", "list", "str"} -> Len(x.v) > 0
      [] x.t \in {"int", "bool"} -> x.v[1] # 0
      [] OTHER -> FALSE

\* a == b as Python computes it on values json.loads returns: numbers by value
\* (True == 1), strings and lists element by element, dicts by key set and
\* value whatever the insertion order, values of different kinds never equal.
RECURSIVE PyEq(_, _)
PyEq(a, b) ==
    CASE IsNumber(a) /\ IsNumber(b) -> a.v[1] = b.v[1]
      [] a.t = "null" /\ b.t = "null" -> TRUE
      [] IsStr(a) /\ IsStr(b) -> a.v = b.v
      [] IsList(a) /\ IsList(b) ->
            /\ Len(a.v) = Len(b.v)
            /\ \A i \in 1..Len(a.v) : PyEq(a.v[i], b.v[i])
      [] IsDict(a) /\ IsDict(b) ->
            /\ KeySet(a) = KeySet(b)
            /\ \A k \in KeySet(a) : PyEq(GetItem(a, k), GetItem(b, k))
      [] OTHER -> FALSE

\* needle in haystack, for two strings: a substring test.
IsSubstring(needle, haystack) ==
    \E i \in 0..(Len(haystack) - Len(needle)) :
        \A j \in 1..Len(needle) : haystack[i + j] = needle[j]

\* Whether `elem in container` raises TypeError: a number or None is not
\* iterable, a str takes only a str on the left, a dict hashes the element
\* and a list or dict is unhashable.
ContainsRaises(container, elem) ==
    CASE IsList(container) -> FALSE
      [] IsStr(container) -> ~IsStr(elem)
      [] IsDict(container) -> elem.t \in {"list", "dict"}
      [] OTHER -> TRUE

\* `elem in container` where it does not raise: equality with an element of a
\* list, a substring of a str, a key of a dict.
Contains(container, elem) ==
    CASE IsList(container) ->
            \E i \in 1..Len(container.v) : PyEq(container.v[i], elem)
      [] IsStr(container) -> IsSubstring(elem.v, container.v)
      [] IsDict(container) -> IsStr(elem) /\ HasKey(container, elem.v)
      [] OTHER -> FALSE

(***************************************************************************)
(* SettingsDiff: find_orphaned                                             *)
(***************************************************************************)
RECURSIVE FindOrphaned(_, _, _)

\* in_base = key in base if isinstance(base, dict) else False
InBase(key, b) == IF IsDict(b) THEN HasKey(b, key) ELSE FALSE

\* in_local = key in local_settings if isinstance(local_settings, dict) else False
InLocal(key, l) == IF IsDict(l) THEN HasKey(l, key) ELSE FALSE

\* A variant with `or` in place of `and`.
Unexplained_Either(in_base, in_local) == ~in_base \/ ~in_local

\* not in_base and not in_local
Unexplained(in_base, in_local) == ~in_base /\ ~in_local

\* A variant that hands base itself down, not its value at the key.
BaseVal_NoDescent(b, key) == IF IsDict(b) THEN b ELSE EmptyDict

\* base_val = base.get(key, {}) if isinstance(base, dict) else {}
BaseVal(b, key) == IF IsDict(b) THEN DictGet(b, key, EmptyDict) ELSE EmptyDict

\* local_val = local_settings.get(key, {}) if isinstance(local_settings, dict) else {}
LocalVal(l, key) == IF IsDict(l) THEN DictGet(l, key, EmptyDict) ELSE EmptyDict

\* base_arr = base.get(key, []) if isinstance(base, dict) else []
BaseArr(b, key) == IF IsDict(b) THEN DictGet(b, key, EmptyList) ELSE EmptyList

\* local_arr = local_settings.get(key, []) if isinstance(local_settings, dict) else []
LocalArr(l, key) == IF IsDict(l) THEN DictGet(l, key, EmptyList) ELSE EmptyList

\* A variant with the two arms exchanged.
Expected_Swapped(in_local, base_arr, local_arr) ==
    IF in_local THEN base_arr ELSE local_arr

\* expected = local_arr if in_local else base_arr
Expected(in_local, base_arr, local_arr) ==
    IF in_local THEN local_arr ELSE base_arr

\* [elem for elem in value if elem not in expected], element by element in
\* order: the first element whose membership test raises ends it.
RECURSIVE Comprehension(_, _, _)
Comprehension(elems, expected, acc) ==
    IF elems = <<>> THEN PyList(acc)
    ELSE IF ContainsRaises(expected, Head(elems)) THEN PyRaise("TypeError")
    ELSE Comprehension(Tail(elems), expected,
                       IF Contains(expected, Head(elems))
                       THEN acc ELSE Append(acc, Head(elems)))

OrphanedElements(value, expected) == Comprehension(value.v, expected, <<>>)

\* A variant of the loop body with the type tests first and the test for an
\* unexplained key last.
LoopBody_TypeFirst(acc, key, value, b, l) ==
    LET in_base == InBase(key, b)
        in_local == InLocal(key, l)
    IN  IF IsDict(value)
        THEN LET nested == FindOrphaned(value, BaseVal(b, key), LocalVal(l, key))
             IN  IF IsRaise(nested) THEN nested
                 ELSE IF Truthy(nested) THEN SetItem(acc, key, nested)
                 ELSE acc
        ELSE IF IsList(value)
        THEN LET expected == Expected(in_local, BaseArr(b, key), LocalArr(l, key))
                 orphaned_elements == OrphanedElements(value, expected)
             IN  IF IsRaise(orphaned_elements) THEN orphaned_elements
                 ELSE IF Truthy(orphaned_elements)
                 THEN SetItem(acc, key, orphaned_elements)
                 ELSE acc
        ELSE IF Unexplained(in_base, in_local) THEN SetItem(acc, key, value)
        ELSE acc

\* One iteration of `for key, value in settings.items()`: the dict `orphaned`
\* after it (acc is `orphaned` before it), or the exception it raises.
LoopBody(acc, key, value, b, l) ==
    LET in_base == InBase(key, b)
        in_local == InLocal(key, l)
    IN  IF Unexplained(in_base, in_local)
        THEN SetItem(acc, key, value)
        ELSE IF IsDict(value)
        THEN LET nested == FindOrphaned(value, BaseVal(b, key), LocalVal(l, key))
             IN  IF IsRaise(nested) THEN nested
                 ELSE IF Truthy(nested) THEN SetItem(acc, key, nested)
                 ELSE acc
        ELSE IF IsList(value)
        THEN LET expected == Expected(in_local, BaseArr(b, key), LocalArr(l, key))
                 orphaned_elements == OrphanedElements(value, expected)
             IN  IF IsRaise(orphaned_elements) THEN orphaned_elements
                 ELSE IF Truthy(orphaned_elements)
                 THEN SetItem(acc, key, orphaned_elements)
                 ELSE acc
        ELSE acc

\* The for loop over settings.items() in insertion order, then `return orphaned`.
RECURSIVE ForItems(_, _, _, _)
ForItems(items, b, l, acc) ==
    IF items = <<>> THEN acc
    ELSE LET next == LoopBody(acc, Head(items)[1], Head(items)[2], b, l)
         IN  IF IsRaise(next) THEN next
             ELSE ForItems(Tail(items), b, l, next)

\* find_orphaned(settings, base, local_settings): the dict it returns, or the
\* exception it raises.
FindOrphaned(s, b, l) ==
    IF ~IsDict(s) THEN EmptyDict
    ELSE ForItems(s.v, b, l, EmptyDict)

(***************************************************************************)
(* The documents the checks range over                                     *)
(***************************************************************************)
\* The longest list of the enumerated family.
MaxLen == 2

KA == Text(<<"a">>)
KB == Text(<<"b">>)

SeqsUpTo(S, n) == UNION {[1..k -> S] : k \in 0..n}

\* List elements: two values that differ, one of them a str.
ListElems == {PyInt(1), PyStr(KA)}

\* Lists outside the family: an element equal to 1 without being an int, an
\* unhashable element, a third distinct element alone and between duplicates.
ExtraLists == {PyList(<<PyTrue>>), PyList(<<EmptyList>>), PyList(<<PyInt(2)>>),
               PyList(<<PyInt(1), PyInt(2), PyInt(1)>>)}

Scalars == {PyInt(1), PyStr(Text(<<"a", "b">>)), None}
Lists == {PyList(xs) : xs \in SeqsUpTo(ListElems, MaxLen)} \cup ExtraLists
Leaves == Scalars \cup Lists

\* Dicts of one key over the leaves and the empty dict; over them dicts of one
\* key, two dicts of two keys, and two dicts three levels deep.
InnerDicts ==
    {EmptyDict} \cup {PyDict(<<<<KB, x>>>>) : x \in Leaves}
OuterDicts ==
    {PyDict(<<<<KA, x>>>>) : x \in Leaves \cup InnerDicts}
    \cup {PyDict(<<<<KB, PyInt(1)>>, <<KA, PyList(<<PyInt(1), PyStr(KA)>>)>>>>),
          PyDict(<<<<KA, PyDict(<<<<KA, PyInt(1)>>, <<KB, PyInt(2)>>>>)>>,
                   <<KB, EmptyList>>>>),
          PyDict(<<<<KA, PyDict(<<<<KB, PyDict(<<<<KA,
                     PyList(<<PyInt(1), PyStr(KA)>>)>>>>)>>>>)>>>>),
          PyDict(<<<<KA, PyDict(<<<<KB, PyDict(<<<<KA,
                     PyList(<<PyInt(1)>>)>>>>)>>>>)>>>>)}

\* What json.loads can return for a file: any JSON value, a dict as a rule.
Docs == {EmptyDict, EmptyList, PyInt(1)} \cup OuterDicts

(***************************************************************************)
(* SettingsDiff: parse_jsonc, json.dumps and main                          *)
(***************************************************************************)
\* A file beside the script: whether it exists and, if it does, what lines
\* 14-17 of parse_jsonc make of its text (read_text, the two re.sub calls and
\* json.loads): the value parsed, or the JSONDecodeError raised.
File(exists, loads) == [exists |-> exists, loads |-> loads]
Absent == File(FALSE, None)
Malformed == File(TRUE, PyRaise("JSONDecodeError"))
Files == {Absent, Malformed} \cup {File(TRUE, d) : d \in Docs}

\* parse_jsonc(path)
ParseJsonc(file) == IF ~file.exists THEN EmptyDict ELSE file.loads

\* A local of main not yet assigned.
Unbound == [t |-> "unbound", v |-> <<>>]

\* json.dumps(..., indent=2): the width of one indentation level.
JsonIndent == 2

DigitChars == Text(<<"0", "1", "2", "3", "4", "5", "6", "7", "8", "9">>)

\* str(n) for an int.
RECURSIVE IntChars(_)
IntChars(n) ==
    IF n < 0 THEN Text(<<"-">>) \o IntChars(-n)
    ELSE IF n < 10 THEN <<DigitChars[n + 1]>>
    ELSE IntChars(n \div 10) \o <<DigitChars[(n % 10) + 1]>>

HexChars ==
    Text(<<"0", "1", "2", "3", "4", "5", "6", "7", "8", "9",
           "a", "b", "c", "d", "e", "f">>)

\* '\\u{0:04x}'.format(n)
UEscape(n) ==
    <<Backslash, Ord("u"),
      HexChars[(n \div 4096) + 1], HexChars[((n \div 256) % 16) + 1],
      HexChars[((n \div 16) % 16) + 1], HexChars[(n % 16) + 1]>>

\* The two-character escapes of json.encoder.ESCAPE_DCT for \n \r \t \f \b.
JsonEscN == Text(<<"\\", "n">>)
JsonEscR == Text(<<"\\", "r">>)
JsonEscT == Text(<<"\\", "t">>)
JsonEscF == Text(<<"\\", "f">>)
JsonEscB == Text(<<"\\", "b">>)

\* One character inside a JSON string literal, as json.dumps (ensure_ascii)
\* writes it: the quote and the backslash behind a backslash, a printable
\* ASCII character as it is, \n \r \t \f \b by their letters, any other
\* character as \uXXXX, one beyond U+FFFF as its surrogate pair.
JsonChar(c) ==
    CASE c = Quote -> <<Backslash, Quote>>
      [] c = Backslash -> <<Backslash, Backslash>>
      [] c = 10 -> JsonEscN
      [] c = 13 -> JsonEscR
      [] c = 9 -> JsonEscT
      [] c = 12 -> JsonEscF
      [] c = 8 -> JsonEscB
      [] c >= 32 /\ c <= 126 /\ c # Quote /\ c # Backslash -> <<c>>
      [] c >= 65536 ->
            UEscape(55296 + ((c - 65536) \div 1024))
            \o UEscape(56320 + ((c - 65536) % 1024))
      [] OTHER -> UEscape(c)

RECURSIVE JsonChars(_)
JsonChars(cs) ==
    IF cs = <<>> THEN <<>> ELSE JsonChar(Head(cs)) \o JsonChars(Tail(cs))

\* A str as a JSON string literal.
JsonQuote(cs) == <<Quote>> \o JsonChars(cs) \o <<Quote>>

RECURSIVE Spaces(_)
Spaces(n) == IF n <= 0 THEN <<>> ELSE <<Blank>> \o Spaces(n - 1)

\* json.dumps's item separator with an indent: a comma and a newline.
ItemSeparator == Text(<<",", "\n">>)

\* The texts of parts joined by ",\n".
RECURSIVE JoinItems(_)
JoinItems(parts) ==
    IF parts = <<>> THEN <<>>
    ELSE IF Len(parts) = 1 THEN parts[1]
    ELSE parts[1] \o ItemSeparator \o JoinItems(Tail(parts))

\* The literals and brackets json.dumps writes, and its key separator.
JsonNull == Text(<<"n", "u", "l", "l">>)
JsonTrue == Text(<<"t", "r", "u", "e">>)
JsonFalse == Text(<<"f", "a", "l", "s", "e">>)
JsonEmptyList == Text(<<"[", "]">>)
JsonEmptyDict == Text(<<"{", "}">>)
JsonOpenList == Text(<<"[", "\n">>)
JsonOpenDict == Text(<<"{", "\n">>)
JsonCloseList == Text(<<"]">>)
JsonCloseDict == Text(<<"}">>)
KeySeparator == Text(<<":", " ">>)

\* json.dumps(x, indent=2) for x nested `level` deep: scalars as JSON
\* literals, an empty container as [] or {}, any other container with one
\* item per line, indented one level more than its brackets.
RECURSIVE JsonDumps(_, _)
JsonDumps(x, level) ==
    CASE x.t = "null" -> JsonNull
      [] x.t = "bool" -> IF x.v[1] = 1 THEN JsonTrue ELSE JsonFalse
      [] x.t = "int" -> IntChars(x.v[1])
      [] x.t = "str" -> JsonQuote(x.v)
      [] x.t = "list" ->
            IF x.v = <<>> THEN JsonEmptyList
            ELSE JsonOpenList
                 \o JoinItems([i \in 1..Len(x.v) |->
                        Spaces(JsonIndent * (level + 1))
                        \o JsonDumps(x.v[i], level + 1)])
                 \o <<Newline>> \o Spaces(JsonIndent * level) \o JsonCloseList
      [] x.t = "dict" ->
            IF x.v = <<>> THEN JsonEmptyDict
            ELSE JsonOpenDict
                 \o JoinItems([i \in 1..Len(x.v) |->
                        Spaces(JsonIndent * (level + 1))
                        \o JsonQuote(x.v[i][1]) \o KeySeparator
                        \o JsonDumps(x.v[i][2], level + 1)])
                 \o <<Newline>> \o Spaces(JsonIndent * level) \o JsonCloseDict

\* "No orphaned settings found."
NoOrphansText ==
    Text(<<"N", "o", " ", "o", "r", "p", "h", "a", "n", "e", "d", " ",
      "s", "e", "t", "t", "i", "n", "g", "s", " ", "f", "o", "u", "n", "d", ".">>)

\* print(text): the text and a newline, on standard output.
PrintOut(out, text) == out \o text \o <<Newline>>

\* print(f"Error: {settings_path} not found", file=sys.stderr); the directory
\* part of the path, which depends on where the script lies, is left out.
NotFoundDiagnostic == [kind |-> "error", about |-> "settings.json not found"]

\* The traceback the interpreter prints for an exception nothing catches.
Traceback(exc) == [kind |-> "traceback", about |-> exc.v[1]]

Init ==
    /\ pc = "main"
    /\ fs \in [settings : Files, base : Files, local : Files]
    /\ base = Unbound
    /\ local_settings = Unbound
    /\ settings = Unbound
    /\ orphaned = Unbound
    /\ again = Unbound
    /\ stdin = <<>>
    /\ input = <<>>
    /\ stdout = <<>>
    /\ stderr = <<>>
    /\ status = -1

\* An uncaught exception: traceback on standard error, exit status 1.
Uncaught(exc) ==
    /\ stderr' = Append(stderr, Traceback(exc))
    /\ status' = 1
    /\ pc' = "exit"

\* A variant of main without the existence check.
CheckSettingsExists_Skipped ==
    /\ pc = "main"
    /\ pc' = "load_base"
    /\ UNCHANGED <<fs, base, local_settings, settings, orphaned, again,
                   stdin, input, stdout, stderr, status>>

\* if not settings_path.exists(): print(..., file=sys.stderr); sys.exit(1)
CheckSettingsExists ==
    /\ pc = "main"
    /\ IF ~fs.settings.exists
       THEN /\ stderr' = Append(stderr, NotFoundDiagnostic)
            /\ status' = 1
            /\ pc' = "exit"
       ELSE /\ pc' = "load_base"
            /\ UNCHANGED <<stderr, status>>
    /\ UNCHANGED <<fs, base, local_settings, settings, orphaned, again,
                   stdin, input, stdout>>

\* base = parse_jsonc(script_dir / "settings.base.jsonc")
LoadBase ==
    /\ pc = "load_base"
    /\ LET r == ParseJsonc(fs.base)
       IN  IF IsRaise(r)
           THEN Uncaught(r) /\ UNCHANGED base
           ELSE /\ base' = r
                /\ pc' = "load_local"
                /\ UNCHANGED <<stderr, status>>
    /\ UNCHANGED <<fs, local_settings, settings, orphaned, again,
                   stdin, input, stdout>>

\* local_settings = parse_jsonc(script_dir / "settings.local.jsonc")
LoadLocal ==
    /\ pc = "load_local"
    /\ LET r == ParseJsonc(fs.local)
       IN  IF IsRaise(r)
           THEN Uncaught(r) /\ UNCHANGED local_settings
           ELSE /\ local_settings' = r
                /\ pc' = "load_settings"
                /\ UNCHANGED <<stderr, status>>
    /\ UNCHANGED <<fs, base, settings, orphaned, again, stdin, input, stdout>>

\* settings = parse_jsonc(settings_path)
LoadSettings ==
    /\ pc = "load_settings"
    /\ LET r == ParseJsonc(fs.settings)
       IN  IF IsRaise(r)
           THEN Uncaught(r) /\ UNCHANGED settings
           ELSE /\ settings' = r
                /\ pc' = "diff"
                /\ UNCHANGED <<stderr, status>>
    /\ UNCHANGED <<fs, base, local_settings, orphaned, again,
                   stdin, input, stdout>>

\* orphaned = find_orphaned(settings, base, local_settings)
Diff ==
    /\ pc = "diff"
    /\ LET r == FindOrphaned(settings, base, local_settings)
       IN  IF IsRaise(r)
           THEN Uncaught(r) /\ UNCHANGED orphaned
           ELSE /\ orphaned' = r
                /\ pc' = "report"
                /\ UNCHANGED <<stderr, status>>
    /\ UNCHANGED <<fs, base, local_settings, settings, again,
                   stdin, input, stdout>>

\* if orphaned: print(json.dumps(orphaned, indent=2))
\* else: print("No orphaned settings found.")      and main returns
Report ==
    /\ pc = "report"
    /\ stdout' = IF Truthy(orphaned)
                 THEN PrintOut(stdout, JsonDumps(orphaned, 0))
                 ELSE PrintOut(stdout, NoOrphansText)
    /\ status' = 0
    /\ pc' = "exit"
    /\ UNCHANGED <<fs, base, local_settings, settings, orphaned, again,
                   stdin, input, stderr>>

Next ==
    \/ CheckSettingsExists
    \/ LoadBase
    \/ LoadLocal
    \/ LoadSettings
    \/ Diff
    \/ Report

Spec == Init /\ [][Next]_vars

(***************************************************************************)
(* Claims about main, checked under Spec                                   *)
(***************************************************************************)
\* C1: when settings.json does not exist, whatever the two optional files
\* are, the run goes from the existence check straight to its end: no document
\* is loaded, nothing is ever written to standard output, and it ends with
\* exit status 1 and the diagnostic, alone, on standard error.
C1_MissingSettingsExitsOne ==
    ~fs.settings.exists =>
        /\ pc \in {"main", "exit"}
        /\ stdout = <<>>
        /\ base = Unbound /\ local_settings = Unbound /\ settings = Unbound
        /\ pc = "exit" => status = 1 /\ stderr = <<NotFoundDiagnostic>>

\* C1's case: settings.json is missing, settings.base.jsonc is malformed and
\* settings.local.jsonc is valid, and the run has ended.
C1_Witness ==
    /\ ~fs.settings.exists
    /\ fs.base = Malformed
    /\ fs.local.exists /\ IsDict(fs.local.loads)
    /\ pc = "exit"
    /\ status = 1
    /\ stderr = <<NotFoundDiagnostic>>

\* Every file that exists parses.
AllPresentParse ==
    \A f \in {fs.settings, fs.base, fs.local} : f.exists => ~IsRaise(f.loads)

\* C5: when settings.json exists and every present document parses, the run
\* ends with exit status 0 and exactly one report on standard output: the line
\* "No orphaned settings found." iff the mapping find_orphaned computes from
\* the three documents is empty, else that mapping as 2-space-indented JSON.
C5_OneReportExitZero ==
    (pc = "exit" /\ fs.settings.exists /\ AllPresentParse) =>
        LET o == FindOrphaned(ParseJsonc(fs.settings), ParseJsonc(fs.base),
                              ParseJsonc(fs.local))
        IN  /\ status = 0
            /\ IsDict(o)
            /\ stdout = IF o = EmptyDict
                        THEN NoOrphansText \o <<Newline>>
                        ELSE JsonDumps(o, 0) \o <<Newline>>


(***************************************************************************)
(* DiffSpec: find_orphaned called on three documents, then on its result   *)
(***************************************************************************)
NoFiles == <<>>

DiffInit ==
    /\ pc = "call"
    /\ settings \in Docs
    /\ base \in Docs
    /\ local_settings \in Docs
    /\ orphaned = None
    /\ again = None
    /\ fs = NoFiles
    /\ stdin = <<>>
    /\ input = <<>>
    /\ stdout = <<>>
    /\ stderr = <<>>
    /\ status = -1

\* orphaned = find_orphaned(settings, base, local_settings)
Call ==
    /\ pc = "call"
    /\ orphaned' = FindOrphaned(settings, base, local_settings)
    /\ pc' = IF IsRaise(orphaned') THEN "raised" ELSE "returned"
    /\ UNCHANGED <<fs, base, local_settings, settings, again,
                   stdin, input, stdout, stderr, status>>

\* find_orphaned(orphaned, base, local_settings)
CallAgain ==
    /\ pc = "returned"
    /\ again' = FindOrphaned(orphaned, base, local_settings)
    /\ pc' = "again"
    /\ UNCHANGED <<fs, base, local_settings, settings, orphaned,
                   stdin, input, stdout, stderr, status>>

DiffNext == Call \/ CallAgain

DiffSpec == DiffInit /\ [][DiffNext]_vars

(***************************************************************************)
(* Vocabulary of the claims about find_orphaned                            *)
(***************************************************************************)
\* k is a key of the document d (no document but a mapping has keys).
KeyOf(d, k) == IsDict(d) /\ HasKey(d, k)

\* The value of d at k, an empty mapping where d has none or it is no mapping.
SubMapping(d, k) ==
    IF KeyOf(d, k) /\ IsDict(GetItem(d, k)) THEN GetItem(d, k) ELSE EmptyDict

\* The value of d at k as the recursion receives it.
SubDoc(d, k) == IF KeyOf(d, k) THEN GetItem(d, k) ELSE EmptyDict

IsScalar(x) == x.t \in {"null", "bool", "int", "str"}

Explains(b, l, k) == KeyOf(b, k) \/ KeyOf(l, k)

\* The triples <<settings, base, local>> the recursion reaches from one call:
\* the call's own, and those of every explained key whose value is a mapping.
RECURSIVE Levels(_, _, _)
Levels(s, b, l) ==
    {<<s, b, l>>} \cup
    (IF IsDict(s)
     THEN UNION {Levels(GetItem(s, k), SubDoc(b, k), SubDoc(l, k)) :
                   k \in {x \in KeySet(s) :
                            Explains(b, l, x) /\ IsDict(GetItem(s, x))}}
     ELSE {})

\* The levels below the call's own.
InnerLevels(s, b, l) == Levels(s, b, l) \ {<<s, b, l>>}

\* P holds of the call in the state, with the result it returned, and of every
\* level below it that returns.
AtEveryLevel(P(_, _, _, _)) ==
    pc \in {"returned", "again"} =>
        /\ P(settings, base, local_settings, orphaned)
        /\ \A lv \in InnerLevels(settings, base, local_settings) :
              LET r == FindOrphaned(lv[1], lv[2], lv[3])
              IN  IsDict(r) => P(lv[1], lv[2], lv[3], r)

RECURSIVE IsSubsequence(_, _)
IsSubsequence(a, b) ==
    IF a = <<>> THEN TRUE
    ELSE IF b = <<>> THEN FALSE
    ELSE IF Head(a) = Head(b) THEN IsSubsequence(Tail(a), Tail(b))
    ELSE IsSubsequence(a, Tail(b))

\* Every key path of r is a key path of s, with s's value there, a non-empty
\* sub-mapping of it or a non-empty subsequence of it.
RECURSIVE PartOf(_, _)
PartOf(r, s) ==
    /\ IsDict(r)
    /\ IsDict(s)
    /\ \A k \in KeySet(r) :
          /\ HasKey(s, k)
          /\ LET rv == GetItem(r, k)
                 sv == GetItem(s, k)
             IN  \/ rv = sv
                 \/ IsDict(rv) /\ IsDict(sv) /\ rv.v # <<>> /\ PartOf(rv, sv)
                 \/ IsList(rv) /\ IsList(sv) /\ rv.v # <<>>
                      /\ IsSubsequence(rv.v, sv.v)

(***************************************************************************)
(* Claims about find_orphaned, checked under DiffSpec.  A claim about "the *)
(* result" is about every call that returns one; C9 is the claim that      *)
(* every call does.                                                        *)
(***************************************************************************)
C2At(s, b, l, r) ==
    IsDict(s) =>
        \A k \in KeySet(s) :
            (~KeyOf(b, k) /\ ~KeyOf(l, k)) =>
                KeyOf(r, k) /\ GetItem(r, k) = GetItem(s, k)

\* C2: at the top level and at every level the recursion reaches, a key of
\* settings that is a key of neither base nor local is in the result, mapped
\* to the whole, unmodified value it has in settings, whatever its type.
C2_UnexplainedKeyWhole == AtEveryLevel(C2At)

\* C2's case: below the top level, a key that neither source has, whose value
\* is an empty list, is reported with that value.
C2_Witness ==
    /\ pc = "returned"
    /\ \E lv \in InnerLevels(settings, base, local_settings) :
          /\ IsDict(lv[1]) /\ KeyOf(lv[1], KB)
          /\ GetItem(lv[1], KB) = EmptyList
          /\ ~KeyOf(lv[2], KB) /\ ~KeyOf(lv[3], KB)
          /\ KeyOf(orphaned, KA)
          /\ GetItem(orphaned, KA) = PyDict(<<<<KB, EmptyList>>>>)

C3At(s, b, l, r) ==
    IsDict(s) =>
        \A k \in KeySet(s) :
            (Explains(b, l, k) /\ IsDict(GetItem(s, k))) =>
                LET nested == FindOrphaned(GetItem(s, k),
                                           SubMapping(b, k), SubMapping(l, k))
                IN  /\ KeyOf(r, k) <=> nested # EmptyDict
                    /\ KeyOf(r, k) => GetItem(r, k) = nested

\* C3: an explained key whose settings value is a mapping is in the result
\* iff the diff of that mapping against base's and local's values at the key
\* is non-empty, and is then mapped to that diff; a base or local value that is
\* absent or no mapping counts as an empty mapping.
C3_ExplainedMappingRecurses == AtEveryLevel(C3At)

\* C3's case: base has the key with a value that is no mapping, local has it
\* with a mapping, and the nested diff is reported.
C3_Witness ==
    /\ pc = "returned"
    /\ KeyOf(settings, KA) /\ IsDict(GetItem(settings, KA))
    /\ KeyOf(base, KA) /\ ~IsDict(GetItem(base, KA))
    /\ KeyOf(local_settings, KA) /\ IsDict(GetItem(local_settings, KA))
    /\ GetItem(local_settings, KA) # EmptyDict
    /\ KeyOf(orphaned, KA)
    /\ GetItem(orphaned, KA) # GetItem(settings, KA)

\* The value that governs the list at k: local's if local has k, else base's.
Governing(b, l, k) == IF KeyOf(l, k) THEN GetItem(l, k) ELSE GetItem(b, k)

\* The elements of xs equal to no element of gov, in order, duplicates kept.
NotAmong(xs, gov) ==
    LET Orphan(e) == \A i \in 1..Len(gov) : ~PyEq(e, gov[i])
    IN  SelectSeq(xs, Orphan)

C4At(s, b, l, r) ==
    IsDict(s) =>
        \A k \in KeySet(s) :
            (/\ Explains(b, l, k)
             /\ IsList(GetItem(s, k))
             /\ IsList(Governing(b, l, k))) =>
                LET sub == NotAmong(GetItem(s, k).v, Governing(b, l, k).v)
                IN  /\ KeyOf(r, k) <=> sub # <<>>
                    /\ KeyOf(r, k) => GetItem(r, k) = PyList(sub)

\* C4: an explained key whose settings value is a list, governed by local's
\* list if local has the key and by base's otherwise, is mapped to the
\* elements of settings' list equal (as Python's == has it) to no element of
\* the governing list, in order and with duplicates, and is left out when
\* there is none; base's value plays no part when local has the key.
C4_ListGovernedByLocalFirst == AtEveryLevel(C4At)

\* C4's case: both sources have the key with different lists, and what is
\* reported is what local's list leaves, which base's list would not.
C4_Witness ==
    /\ pc = "returned"
    /\ KeyOf(settings, KA) /\ IsList(GetItem(settings, KA))
    /\ KeyOf(base, KA) /\ IsList(GetItem(base, KA))
    /\ KeyOf(local_settings, KA) /\ IsList(GetItem(local_settings, KA))
    /\ KeyOf(orphaned, KA)
    /\ Len(GetItem(orphaned, KA).v) = 2
    /\ GetItem(orphaned, KA) # GetItem(settings, KA)
    /\ NotAmong(GetItem(settings, KA).v, GetItem(base, KA).v) = <<>>

C8At(s, b, l, r) ==
    IsDict(s) =>
        \A k \in KeySet(s) :
            (Explains(b, l, k) /\ IsScalar(GetItem(s, k))) => ~KeyOf(r, k)

\* C8: an explained key whose settings value is a scalar is never in the
\* result, whatever values base and local hold for it.
C8_ExplainedScalarDropped == AtEveryLevel(C8At)

\* C8's case: base explains the key with a value of another type than
\* settings' scalar, and the key is not reported.
C8_Witness ==
    /\ pc = "returned"
    /\ KeyOf(settings, KA) /\ GetItem(settings, KA) = PyInt(1)
    /\ KeyOf(base, KA) /\ IsList(GetItem(base, KA))
    /\ ~KeyOf(local_settings, KA)
    /\ ~KeyOf(orphaned, KA)

\* C9: find_orphaned returns a mapping for every three JSON values; no call
\* ends in an exception.
C9_Total == pc \in {"returned", "raised", "again"} => IsDict(orphaned)

\* C10: find_orphaned applied to its own result (same base and local) returns
\* that result, and every key path of the result is a key path of settings
\* holding settings' value, a non-empty sub-mapping or a non-empty subsequence
\* of it.
C10_IdempotentAndPartOfSettings ==
    /\ pc = "again" => again = orphaned
    /\ (pc \in {"returned", "again"} /\ IsDict(settings)) =>
          PartOf(orphaned, settings)

\* C10's case: the second call has returned a result that keeps a nested
\* mapping and a filtered list, and differs from settings.
C10_Witness ==
    /\ pc = "again"
    /\ again = orphaned
    /\ orphaned # EmptyDict
    /\ orphaned # settings
    /\ \E k \in KeySet(orphaned) :
          /\ IsDict(GetItem(orphaned, k))
          /\ \E j \in KeySet(GetItem(orphaned, k)) :
                /\ IsList(GetItem(GetItem(orphaned, k), j))
                /\ GetItem(GetItem(orphaned, k), j)
                     # GetItem(GetItem(settings, k), j)

(***************************************************************************)
(* Escaper: bin/regex-escape.py                                            *)
(***************************************************************************)
\* The longest input stream, in characters.
MaxStream == 4

\* The characters of the streams: a letter, a regex metacharacter, the slash,
\* the backslash, a blank and the newline.
Alphabet == {Ord("a"), Ord("."), Slash, Backslash, Blank, Newline}

Streams == SeqsUpTo(Alphabet, MaxStream)

\* The characters str.rstrip() strips, those str.isspace() holds of: \t \n \v
\* \f \r, the four separators U+001C..U+001F, the blank, and the white space
\* beyond ASCII (U+0085, U+00A0, U+1680, U+2000..U+200A, U+2028, U+2029,
\* U+202F, U+205F, U+3000).
PyWhitespace ==
    {9, 10, 11, 12, 13, 28, 29, 30, 31, 32, 133, 160, 5760}
    \cup (8192..8202) \cup {8232, 8233, 8239, 8287, 12288}

\* The characters re.escape puts a backslash before (re._special_chars_map,
\* Python 3.7 and later): ()[]{}?*+-|^$\.&~# and the blank, \t \n \r \v \f.
ReSpecialChars ==
    {Ord(c) : c \in {"(", ")", "[", "]", "{", "}", "?", "*", "+", "-", "|",
                    "^", "$", "\\", ".", "&", "~", "#", " "}}
    \cup {9, 10, 13, 11, 12}

\* line.rstrip()
RECURSIVE RStrip(_)
RStrip(cs) ==
    IF cs # <<>> /\ cs[Len(cs)] \in PyWhitespace
    THEN RStrip(SubSeq(cs, 1, Len(cs) - 1))
    ELSE cs

\* re.escape(s)
RECURSIVE ReEscape(_)
ReEscape(cs) ==
    IF cs = <<>> THEN <<>>
    ELSE (IF Head(cs) \in ReSpecialChars THEN <<Backslash, Head(cs)>>
          ELSE <<Head(cs)>>)
         \o ReEscape(Tail(cs))

\* escaped.replace("/", "\\/")
RECURSIVE ReplaceSlash(_)
ReplaceSlash(cs) ==
    IF cs = <<>> THEN <<>>
    ELSE (IF Head(cs) = Slash THEN <<Backslash, Slash>> ELSE <<Head(cs)>>)
         \o ReplaceSlash(Tail(cs))

\* What the loop body prints for one line (without print's newline).
EscapeLine(line) == ReplaceSlash(ReEscape(RStrip(line)))

\* The next line of a stream that is not at its end, as the iteration over
\* sys.stdin yields it: up to and with the first newline, or all that is left
\* (off Windows sys.stdin ends a line at \n alone and hands \r on as it is).
RECURSIVE ReadLine(_)
ReadLine(stream) ==
    IF stream = <<>> THEN <<>>
    ELSE IF Head(stream) = Newline THEN <<Newline>>
    ELSE <<Head(stream)>> \o ReadLine(Tail(stream))

EscInit ==
    /\ pc = "loop"
    /\ input \in Streams
    /\ stdin = input
    /\ stdout = <<>>
    /\ stderr = <<>>
    /\ status = -1
    /\ fs = NoFiles
    /\ base = Unbound
    /\ local_settings = Unbound
    /\ settings = Unbound
    /\ orphaned = Unbound
    /\ again = Unbound

\* A variant of the loop body that prints nothing for a blank line.
ProcessLine_SkipBlank ==
    /\ pc = "loop"
    /\ stdin # <<>>
    /\ LET line == ReadLine(stdin)
       IN  /\ stdin' = SubSeq(stdin, Len(line) + 1, Len(stdin))
           /\ stdout' = IF RStrip(line) = <<>> THEN stdout
                        ELSE PrintOut(stdout, EscapeLine(line))
    /\ UNCHANGED <<pc, fs, base, local_settings, settings, orphaned, again,
                   input, stderr, status>>

\* One iteration of `for line in stdin`: read a line, print it escaped.
ProcessLine ==
    /\ pc = "loop"
    /\ stdin # <<>>
    /\ LET line == ReadLine(stdin)
       IN  /\ stdin' = SubSeq(stdin, Len(line) + 1, Len(stdin))
           /\ stdout' = PrintOut(stdout, EscapeLine(line))
    /\ UNCHANGED <<pc, fs, base, local_settings, settings, orphaned, again,
                   input, stderr, status>>

\* End of input: the loop and the script end.
EndOfInput ==
    /\ pc = "loop"
    /\ stdin = <<>>
    /\ pc' = "done"
    /\ status' = 0
    /\ UNCHANGED <<fs, base, local_settings, settings, orphaned, again,
                   stdin, input, stdout, stderr>>

EscNext == ProcessLine \/ EndOfInput

\* The script is one sequential process that runs until it ends: a step that
\* can be taken is taken.
EscSpec == EscInit /\ [][EscNext]_vars /\ WF_vars(EscNext)

(***************************************************************************)
(* Claims about the Escaper, checked under EscSpec                         *)
(***************************************************************************)
\* The lines of a stream, each with its newline (the last may have none).
RECURSIVE SplitLines(_)
SplitLines(stream) ==
    IF stream = <<>> THEN <<>>
    ELSE LET i == IF \E j \in 1..Len(stream) : stream[j] = Newline
                  THEN CHOOSE j \in 1..Len(stream) :
                         /\ stream[j] = Newline
                         /\ \A m \in 1..(j - 1) : stream[m] # Newline
                  ELSE Len(stream)
         IN  <<SubSeq(stream, 1, i)>>
             \o SplitLines(SubSeq(stream, i + 1, Len(stream)))

\* A line without its newline, if it has one.
Chomp(line) ==
    IF line # <<>> /\ line[Len(line)] = Newline
    THEN SubSeq(line, 1, Len(line) - 1) ELSE line

\* The lines written so far, without their newlines.
OutLines(out) ==
    LET ls == SplitLines(out) IN [i \in 1..Len(ls) |-> Chomp(ls[i])]

\* A pattern with its escaping backslashes removed: the text it matches.
RECURSIVE Unescape(_)
Unescape(cs) ==
    IF cs = <<>> THEN <<>>
    ELSE IF Head(cs) = Backslash /\ Len(cs) >= 2
    THEN <<cs[2]>> \o Unescape(SubSeq(cs, 3, Len(cs)))
    ELSE <<Head(cs)>> \o Unescape(Tail(cs))

\* C6: every output line is a literal pattern for exactly its input line, the
\* newline apart: without its escaping backslashes it is that line, character
\* for character, trailing spaces and tabs included.
C6_LiteralPatternOfLine ==
    \A i \in 1..Len(OutLines(stdout)) :
        Unescape(OutLines(stdout)[i]) = Chomp(SplitLines(input)[i])

C7Safe ==
    LET ins == SplitLines(input)
        outs == OutLines(stdout)
    IN  /\ Len(outs) + Len(SplitLines(stdin)) = Len(ins)
        /\ stdout # <<>> => stdout[Len(stdout)] = Newline
        /\ \A i \in 1..Len(outs) : outs[i] = EscapeLine(ins[i])
        /\ \A i, j \in 1..Len(outs) : ins[i] = ins[j] => outs[i] = outs[j]
        /\ pc = "done" => Len(outs) = Len(ins)

\* C7: one output line per input line read, in input order, the i-th output
\* line depending on the i-th input line alone; at the end of N input lines
\* exactly N output lines are written, and the end is reached.
C7_OneLinePerLine == []C7Safe /\ <>(pc = "done")

\* C7's case: an empty line, a line of one space and a last line without a
\* newline have been read to the end, and three lines are written.
C7_Witness ==
    /\ pc = "done"
    /\ input = Text(<<"\n", " ", "\n", "a">>)
    /\ stdout = Text(<<"\n", "\n", "a", "\n">>)

====
